---- MODULE Spec2Model ----
(***************************************************************************)
(* A model of the intention framework: the Schema Validator                *)
(* (src/utils.py), the Type Coercer and the Output Processor               *)
(* (src/processors/output.py), the Input Processor                         *)
(* (src/processors/input.py), the Template Registry (src/core/template.py) *)
(* and the client (src/core/client.py).                                    *)
(*                                                                         *)
(* The validators and processors are pure functions.  The specifications   *)
(* about them draw the arguments of one call in the initial state          *)
(* (variable call) and have one action per operation that applies the      *)
(* operation and stores its outcome (variable ret) together with the       *)
(* functions it called on the way (variable calls).                        *)
(*                                                                         *)
(* The registry is the one piece of shared state (variable registry).  In  *)
(* the specification of the registry call and ret hold the last operation  *)
(* on it and its outcome, and calls the register calls made so far.  The   *)
(* calls of IntentionClient.process in flight are in variable tasks.       *)
(***************************************************************************)
EXTENDS Integers, Sequences, FiniteSets, TLC

VARIABLES call, ret, calls, registry, tasks

vars == <<call, ret, calls, registry, tasks>>

(***************************************************************************)
(* Bounds of the model.                                                    *)
(***************************************************************************)
\* Nesting depth of the data values and of the descriptors that are drawn.
MaxDepth == 2
\* Length of the strings that are drawn as leaves for the Type Coercer.
MaxStrLen == 3
\* Number of containers that are wrapped around a leaf for the Type Coercer.
MaxNest == 2

(***************************************************************************)
(* Outcomes of a call: it has not run yet, it returned a value, or it      *)
(* raised an exception.                                                    *)
(***************************************************************************)
Pending == [kind |-> "pending"]
Return(v) == [kind |-> "return", val |-> v]
Raise(type, msg) == [kind |-> "raise", exc |-> [type |-> type, msg |-> msg]]

(***************************************************************************)
(* Python values (the JsonType of src/core/types.py:41).  A string is the  *)
(* sequence of its characters; a float is <<m, e>>, standing for m / 10^e  *)
(* with m not divisible by 10 unless e = 0; a dict is a function from its  *)
(* keys.  Each type keeps its payload in a field of its own.               *)
(***************************************************************************)
PyStr(cs) == [t |-> "str", s |-> cs]
PyInt(n) == [t |-> "int", i |-> n]
PyFloat(m, e) == [t |-> "float", f |-> <<m, e>>]
PyBool(b) == [t |-> "bool", b |-> b]
PyNone == [t |-> "NoneType"]
PyList(xs) == [t |-> "list", l |-> xs]
PyDict(f) == [t |-> "dict", d |-> f]
EmptyMap == [k \in {} |-> PyNone]

\* type(value).__mro__: the classes a value is an instance of.
Mro(value) ==
    IF value.t = "bool" THEN {"bool", "int", "object"} ELSE {value.t, "object"}

\* isinstance(value, cls) for a class object cls.
isinstance(value, cls) == cls \in Mro(value)

(***************************************************************************)
(* Type descriptors, as the Python objects a schema holds: a class         *)
(* (int, str, ...), a typing.Union, a subscripted generic (Dict[str, Any]),*)
(* a dict instance (a nested schema), or anything else (a tuple, a         *)
(* string).                                                                *)
(***************************************************************************)
TypeObj(n) == [k |-> "type", name |-> n]
UnionOf(args) == [k |-> "Union", args |-> args]
Generic(origin) == [k |-> "generic", origin |-> origin]
DictDesc(f) == [k |-> "dict", d |-> f]
OtherDesc == [k |-> "other"]

\* typing.get_origin
get_origin(tp) ==
    IF tp.k = "Union" THEN "Union"
    ELSE IF tp.k = "generic" THEN tp.origin
    ELSE "None"

\* typing.get_args
get_args(tp) == IF tp.k = "Union" THEN tp.args ELSE <<>>

(***************************************************************************)
(* The Schema Validator.                                                   *)
(***************************************************************************)
RECURSIVE is_valid_type(_, _)

\* Mutant of is_valid_type_union: every member must match.
is_valid_type_union_all(value, expected_type) ==
    \A i \in DOMAIN get_args(expected_type) :
        is_valid_type(value, get_args(expected_type)[i])

\* any(is_valid_type(value, t) for t in get_args(expected_type))
is_valid_type_union(value, expected_type) ==
    \E i \in DOMAIN get_args(expected_type) :
        is_valid_type(value, get_args(expected_type)[i])

\* Mutant of is_valid_type_nested: a key the value lacks is skipped.
is_valid_type_nested_skip(value, expected_type) ==
    IF ~isinstance(value, "dict") THEN FALSE
    ELSE \A k \in DOMAIN expected_type.d :
             k \in DOMAIN value.d => is_valid_type(value.d[k], expected_type.d[k])

\* The nested-dictionary branch.
is_valid_type_nested(value, expected_type) ==
    IF ~isinstance(value, "dict") THEN FALSE
    ELSE \A k \in DOMAIN expected_type.d :
             k \in DOMAIN value.d /\ is_valid_type(value.d[k], expected_type.d[k])

is_valid_type(value, expected_type) ==
    IF get_origin(expected_type) = "Union"
    THEN is_valid_type_union(value, expected_type)
    ELSE IF get_origin(expected_type) = "dict"
    THEN isinstance(value, "dict")
    ELSE IF expected_type.k = "type"
    THEN isinstance(value, expected_type.name)
    ELSE IF expected_type.k = "dict"
    THEN is_valid_type_nested(value, expected_type)
    ELSE FALSE

\* The order in which a dict is iterated.  Python iterates in insertion
\* order, which a function does not record; the keys are taken in this order.
KeyOrder == <<"a", "b", "x", "y">>
items(d) == SelectSeq(KeyOrder, LAMBDA k : k \in DOMAIN d)

\* `field in data`: "True", "False", or the exception it raises.
contains(data, field) ==
    IF data.t = "dict" THEN (IF field \in DOMAIN data.d THEN "True" ELSE "False")
    ELSE IF data.t = "str"
    THEN (IF \E i \in DOMAIN data.s : data.s[i] = field THEN "True" ELSE "False")
    ELSE IF data.t = "list"
    THEN (IF \E i \in DOMAIN data.l : data.l[i] = PyStr(<<field>>)
          THEN "True" ELSE "False")
    ELSE "TypeError"

\* The exceptions the body of validate_schema can raise.
Exceptions == {"TypeError", "AttributeError"}

RECURSIVE validate_schema_loop(_, _, _)
\* Mutant of validate_schema_loop: an absent field is skipped.
validate_schema_loop_skip(data, schema, fields) ==
    IF fields = <<>> THEN "True"
    ELSE LET field == Head(fields)
             present == contains(data, field)
         IN  IF present = "TypeError" THEN "TypeError"
             ELSE IF present = "False"
             THEN validate_schema_loop(data, schema, Tail(fields))
             ELSE IF data.t # "dict" THEN "TypeError"
             ELSE IF ~is_valid_type(data.d[field], schema.d[field]) THEN "False"
             ELSE validate_schema_loop(data, schema, Tail(fields))

\* The loop over schema.items(): "True", "False", or the exception raised.
validate_schema_loop(data, schema, fields) ==
    IF fields = <<>> THEN "True"
    ELSE LET field == Head(fields)
             present == contains(data, field)
         IN  IF present = "TypeError" THEN "TypeError"
             ELSE IF present = "False" THEN "False"
             \* data[field] with a string key: only a dict has it
             ELSE IF data.t # "dict" THEN "TypeError"
             ELSE IF ~is_valid_type(data.d[field], schema.d[field]) THEN "False"
             ELSE validate_schema_loop(data, schema, Tail(fields))

\* The body of the try block; schema.items() exists only for a dict.
validate_schema_body(data, schema) ==
    IF schema.k # "dict" THEN "AttributeError"
    ELSE validate_schema_loop(data, schema, items(schema.d))

\* Mutant of validate_schema: no except clause.
validate_schema_no_except(data, schema) ==
    LET body == validate_schema_body(data, schema)
    IN  IF body \in Exceptions THEN Raise(body, "") ELSE Return(body = "True")

validate_schema(data, schema) ==
    LET body == validate_schema_body(data, schema)
    IN  IF body \in Exceptions THEN Return(FALSE) ELSE Return(body = "True")

(***************************************************************************)
(* The arguments drawn for the Schema Validator.  Key "x" carries the      *)
(* nesting and key "y" a sibling leaf, so that the number of values grows  *)
(* linearly with the depth.                                                *)
(***************************************************************************)
StrX == PyStr(<<"x">>)
ValueLeaves ==
    {PyInt(5), PyBool(TRUE), StrX, PyNone, PyFloat(15, 1),
     PyList(<<StrX>>), PyDict(EmptyMap)}
SiblingValues == {PyInt(5), StrX}

RECURSIVE ValuesUpTo(_)
ValuesUpTo(d) ==
    IF d = 0 THEN ValueLeaves
    ELSE LET inner == ValuesUpTo(d - 1)
         IN  ValueLeaves
             \cup {PyDict("x" :> v) : v \in inner}
             \cup {PyDict("y" :> s) : s \in SiblingValues}
             \cup {PyDict(("x" :> v) @@ ("y" :> s)) : v \in inner, s \in SiblingValues}

TypeTags == {TypeObj(n) : n \in {"int", "float", "bool", "str", "NoneType", "list"}}
Unions ==
    {UnionOf(<<TypeObj("str"), TypeObj("NoneType")>>),
     UnionOf(<<TypeObj("int"), TypeObj("str")>>),
     UnionOf(<<Generic("dict"), TypeObj("NoneType")>>)}
DescLeaves ==
    TypeTags \cup Unions \cup {Generic("dict"), OtherDesc, DictDesc(EmptyMap)}
SiblingDescs == {TypeObj("int")}

RECURSIVE DescsUpTo(_)
DescsUpTo(d) ==
    IF d = 0 THEN DescLeaves
    ELSE LET inner == DescsUpTo(d - 1)
         IN  DescLeaves
             \cup {DictDesc("x" :> e) : e \in inner}
             \cup {DictDesc("y" :> s) : s \in SiblingDescs}
             \cup {DictDesc(("x" :> e) @@ ("y" :> s)) : e \in inner, s \in SiblingDescs}

Values == ValuesUpTo(MaxDepth)
Descs == DescsUpTo(MaxDepth)

InitSchema ==
    /\ \E d \in Values, s \in Descs :
           \/ call = [op |-> "validate_schema", data |-> d, schema |-> s]
           \/ call = [op |-> "is_valid_type", value |-> d, expected_type |-> s]
    /\ ret = Pending
    /\ calls = <<>>
    /\ registry = <<>>
    /\ tasks = <<>>

ValidateSchemaCall ==
    /\ call.op = "validate_schema"
    /\ ret = Pending
    /\ ret' = validate_schema(call.data, call.schema)
    /\ UNCHANGED <<call, calls, registry, tasks>>

IsValidTypeCall ==
    /\ call.op = "is_valid_type"
    /\ ret = Pending
    /\ ret' = Return(is_valid_type(call.value, call.expected_type))
    /\ UNCHANGED <<call, calls, registry, tasks>>

NextSchema == ValidateSchemaCall \/ IsValidTypeCall

SpecSchema == InitSchema /\ [][NextSchema]_vars

(***************************************************************************)
(* Properties of the Schema Validator, checked under SpecSchema.           *)
(***************************************************************************)
\* The call of the state has run.
Done == ret # Pending

\* A dict value cut down to the given keys.
Restrict(value, keys) ==
    PyDict([k \in (DOMAIN value.d) \cap keys |-> value.d[k]])

IntTag == TypeObj("int")
OptionalStr == UnionOf(<<TypeObj("str"), TypeObj("NoneType")>>)

\* C1: for a data mapping D and a schema S, validate_schema(D, S) returns
\* true exactly when every field S names is present in D with a value that
\* is_valid_type accepts for the field's descriptor; a missing field or a
\* wrong-typed value gives false, and the keys of D that S does not name do
\* not change the result.
C1_ValidateSchemaIff ==
    (call.op = "validate_schema" /\ Done
        /\ call.data.t = "dict" /\ call.schema.k = "dict") =>
        /\ ret.kind = "return"
        /\ ret.val = (\A f \in DOMAIN call.schema.d :
                         /\ f \in DOMAIN call.data.d
                         /\ is_valid_type(call.data.d[f], call.schema.d[f]))
        /\ ret = validate_schema(Restrict(call.data, DOMAIN call.schema.d),
                                 call.schema)
        /\ (call.schema = DictDesc("x" :> IntTag) =>
               /\ call.data = PyDict(EmptyMap) => ret.val = FALSE
               /\ call.data = PyDict("x" :> StrX) => ret.val = FALSE
               /\ call.data = PyDict(("x" :> PyInt(5)) @@ ("y" :> PyInt(5)))
                      => ret.val = TRUE)

\* validate_schema accepted a mapping that holds a key its schema does not
\* name.
C1_Witness ==
    /\ call.op = "validate_schema" /\ Done
    /\ call.data.t = "dict" /\ call.schema.k = "dict"
    /\ DOMAIN call.schema.d = {"x"}
    /\ DOMAIN call.data.d = {"x", "y"}
    /\ ret = Return(TRUE)

\* C2: for a primitive-type tag, is_valid_type(value, tag) is true exactly
\* when the runtime type of the value is the tagged type itself, never a
\* subtype: an integer does not satisfy a float tag and a boolean does not
\* satisfy an integer tag.
C2_ExactTypeMatch ==
    (call.op = "is_valid_type" /\ Done /\ call.expected_type.k = "type") =>
        ret.val = (call.value.t = call.expected_type.name)

\* C3: for a nested-schema descriptor N, is_valid_type(value, N) is true
\* exactly when value is a mapping, every key of N is present in value and
\* each such value matches its descriptor, at every depth; the keys of value
\* that N does not name are ignored at every level.
C3_NestedSchemaIff ==
    (call.op = "is_valid_type" /\ Done /\ call.expected_type.k = "dict") =>
        LET N == call.expected_type.d
            value == call.value
        IN  /\ ret.val =
                   (/\ value.t = "dict"
                    /\ \A k \in DOMAIN N :
                           k \in DOMAIN value.d /\ is_valid_type(value.d[k], N[k]))
            /\ value.t = "dict" =>
                   ret.val = is_valid_type(Restrict(value, DOMAIN N),
                                           call.expected_type)
            /\ call.expected_type = DictDesc("x" :> DictDesc("x" :> IntTag)) =>
                   /\ value = PyDict(("x" :> PyDict(("x" :> PyInt(5)) @@ ("y" :> StrX)))
                                     @@ ("y" :> PyInt(5)))
                          => ret.val = TRUE
                   /\ value = PyDict("x" :> PyDict("y" :> PyInt(5)))
                          => ret.val = FALSE
                   /\ value = PyDict("x" :> PyInt(5)) => ret.val = FALSE

\* A two-level nested schema accepted a value that has a key the schema does
\* not name at the inner level.
C3_Witness ==
    /\ call.op = "is_valid_type" /\ Done
    /\ call.expected_type = DictDesc("x" :> DictDesc("x" :> IntTag))
    /\ call.value.t = "dict" /\ "x" \in DOMAIN call.value.d
    /\ call.value.d["x"].t = "dict"
    /\ DOMAIN call.value.d["x"].d = {"x", "y"}
    /\ ret = Return(TRUE)

\* C4: for a union descriptor, is_valid_type(value, union) is true exactly
\* when the value matches at least one member; null matches
\* union(string, null) and the integer 5 does not.
C4_UnionIffAnyMember ==
    (call.op = "is_valid_type" /\ Done /\ call.expected_type.k = "Union") =>
        LET members == call.expected_type.args
        IN  /\ ret.val = (\E i \in DOMAIN members :
                             is_valid_type(call.value, members[i]))
            /\ call.expected_type = OptionalStr =>
                   /\ call.value = PyNone => ret.val = TRUE
                   /\ call.value = PyInt(5) => ret.val = FALSE
                   /\ ret.val = (call.value.t \in {"str", "NoneType"})

\* null was matched against union(string, null), by its second member only.
C4_Witness ==
    /\ call.op = "is_valid_type" /\ Done
    /\ call.expected_type = OptionalStr
    /\ call.value = PyNone
    /\ ~is_valid_type(call.value, call.expected_type.args[1])
    /\ ret = Return(TRUE)

\* An unrecognised descriptor occurs in a descriptor, at any depth.
RECURSIVE HasOther(_)
HasOther(tp) ==
    \/ tp.k = "other"
    \/ tp.k = "dict" /\ \E k \in DOMAIN tp.d : HasOther(tp.d[k])

\* C5: validate_schema is total: for every data value and every schema,
\* a data value that is no mapping and a schema that is no mapping included,
\* it returns a boolean and never raises; a descriptor of an unrecognised
\* shape and any internal error give false.
C5_ValidateSchemaTotal ==
    (call.op = "validate_schema" /\ Done) =>
        /\ ret.kind = "return"
        /\ ret.val \in BOOLEAN
        /\ validate_schema_body(call.data, call.schema) \in Exceptions
               => ret.val = FALSE
        /\ HasOther(call.schema) => ret.val = FALSE

\* validate_schema ran into an internal error (the data is no mapping and
\* cannot be searched or subscripted) and returned false.
C5_Witness ==
    /\ call.op = "validate_schema" /\ Done
    /\ call.data.t # "dict" /\ call.schema.k = "dict"
    /\ validate_schema_body(call.data, call.schema) = "TypeError"
    /\ ret = Return(FALSE)

(***************************************************************************)
(* Python strings.  A character is a one-character string, except "FS",    *)
(* which stands for the control character U+001C (file separator):         *)
(* str.strip() removes it as whitespace, while int() and float() do not    *)
(* skip it (they skip only ASCII blanks and non-ASCII Unicode spaces).     *)
(***************************************************************************)
DigitVal ==
    [c \in {"0", "1", "2", "3", "4", "5", "6", "7", "8", "9"} |->
        CASE c = "0" -> 0 [] c = "1" -> 1 [] c = "2" -> 2 [] c = "3" -> 3
          [] c = "4" -> 4 [] c = "5" -> 5 [] c = "6" -> 6 [] c = "7" -> 7
          [] c = "8" -> 8 [] c = "9" -> 9]
IsDigit(c) == c \in DOMAIN DigitVal

\* The characters str.strip() removes, and those int() and float() skip.
StripWhitespace == {" ", "FS"}
NumericWhitespace == {" "}

RECURSIVE lstrip(_, _)
lstrip(cs, ws) ==
    IF cs # <<>> /\ Head(cs) \in ws THEN lstrip(Tail(cs), ws) ELSE cs

RECURSIVE rstrip(_, _)
rstrip(cs, ws) ==
    IF cs # <<>> /\ cs[Len(cs)] \in ws
    THEN rstrip(SubSeq(cs, 1, Len(cs) - 1), ws) ELSE cs

strip(cs, ws) == rstrip(lstrip(cs, ws), ws)

\* The number a sequence of decimal digits writes.
RECURSIVE DigitsValue(_)
DigitsValue(ds) ==
    IF ds = <<>> THEN 0
    ELSE 10 * DigitsValue(SubSeq(ds, 1, Len(ds) - 1)) + DigitVal[ds[Len(ds)]]

\* <<m, e>> with the trailing zeros of the fraction removed.
RECURSIVE NormalFloat(_, _)
NormalFloat(m, e) ==
    IF e > 0 /\ m % 10 = 0 THEN NormalFloat(m \div 10, e - 1) ELSE PyFloat(m, e)

\* int(s) of a string of this alphabet: blanks around a non-empty run of
\* digits, or ValueError.
py_int(cs) ==
    LET body == strip(cs, NumericWhitespace)
    IN  IF body # <<>> /\ \A i \in DOMAIN body : IsDigit(body[i])
        THEN Return(PyInt(DigitsValue(body)))
        ELSE Raise("ValueError", "invalid literal for int()")

\* float(s) of a string of this alphabet: blanks around digits with at most
\* one point and at least one digit, or ValueError.
py_float(cs) ==
    LET body == strip(cs, NumericWhitespace)
        points == {i \in DOMAIN body : body[i] = "."}
        digits == SelectSeq(body, IsDigit)
    IN  IF /\ \A i \in DOMAIN body : IsDigit(body[i]) \/ body[i] = "."
           /\ Cardinality(points) <= 1
           /\ digits # <<>>
        THEN LET p == IF points = {} THEN Len(body)
                      ELSE CHOOSE i \in points : TRUE
             IN  Return(NormalFloat(DigitsValue(digits), Len(body) - p))
        ELSE Raise("ValueError", "could not convert string to float")

\* `"." in data`
HasPoint(cs) == \E i \in DOMAIN cs : cs[i] = "."

(***************************************************************************)
(* The Type Coercer, OutputProcessor._process_nested_structures.           *)
(***************************************************************************)
\* Mutant of process_str: a string that is no float is tried as an integer
\* up to its first point.
process_str_partial(cs) ==
    LET attempt == IF HasPoint(cs) THEN py_float(cs) ELSE py_int(cs)
        p == CHOOSE i \in DOMAIN cs : cs[i] = "."
        before == IF HasPoint(cs) THEN py_int(SubSeq(cs, 1, p - 1)) ELSE attempt
    IN  IF attempt.kind = "return" THEN attempt
        ELSE IF before.kind = "return" THEN before
        ELSE Return(PyStr(strip(cs, StripWhitespace)))

\* The str branch: the try block and its except ValueError clause.
process_str(cs) ==
    LET attempt == IF HasPoint(cs) THEN py_float(cs) ELSE py_int(cs)
    IN  IF attempt.kind = "raise" /\ attempt.exc.type = "ValueError"
        THEN Return(PyStr(strip(cs, StripWhitespace)))
        ELSE attempt

RECURSIVE process_nested_structures(_)

\* Mutant of process_list: the items are returned in reverse order.
process_list_reversed(data) ==
    LET outs == [i \in DOMAIN data.l |-> process_nested_structures(data.l[i])]
    IN  IF \E i \in DOMAIN outs : outs[i].kind = "raise"
        THEN outs[CHOOSE i \in DOMAIN outs : outs[i].kind = "raise"]
        ELSE Return(PyList([i \in DOMAIN outs |-> outs[Len(outs) + 1 - i].val]))

\* The list branch; an exception of an item propagates.
process_list(data) ==
    LET outs == [i \in DOMAIN data.l |-> process_nested_structures(data.l[i])]
    IN  IF \E i \in DOMAIN outs : outs[i].kind = "raise"
        THEN outs[CHOOSE i \in DOMAIN outs : outs[i].kind = "raise"]
        ELSE Return(PyList([i \in DOMAIN outs |-> outs[i].val]))

\* The dict branch; an exception of a value propagates.
process_dict(data) ==
    LET outs == [k \in DOMAIN data.d |-> process_nested_structures(data.d[k])]
    IN  IF \E k \in DOMAIN outs : outs[k].kind = "raise"
        THEN outs[CHOOSE k \in DOMAIN outs : outs[k].kind = "raise"]
        ELSE Return(PyDict([k \in DOMAIN outs |-> outs[k].val]))

process_nested_structures(data) ==
    IF data.t = "dict" THEN process_dict(data)
    ELSE IF data.t = "list" THEN process_list(data)
    ELSE IF data.t = "str" THEN process_str(data.s)
    ELSE Return(data)

(***************************************************************************)
(* The values drawn for the Type Coercer: every string over a small        *)
(* alphabet, the strings the specification names, the other leaves, and    *)
(* containers wrapped around them.                                         *)
(***************************************************************************)
Alphabet == {"1", ".", " ", "x", "FS"}

RECURSIVE StringsUpTo(_)
StringsUpTo(n) ==
    IF n = 0 THEN {<<>>}
    ELSE LET shorter == StringsUpTo(n - 1)
         IN  shorter \cup {Append(cs, c) : cs \in shorter, c \in Alphabet}

NamedStrings ==
    {<<"4", "2">>, <<"3", ".", "1", "4">>, <<"1", "2", ".", "3", ".", "4">>,
     <<" ", "2", " ">>, <<"1", ".", "0">>, <<"1", "0">>, <<"0", ".", "5">>,
     <<"0", "0", ".", "5", "0">>}

StringLeaves == {PyStr(cs) : cs \in StringsUpTo(MaxStrLen) \cup NamedStrings}
OtherLeaves == {PyInt(5), PyFloat(15, 1), PyBool(TRUE), PyNone}

\* One container around a value: alone, or beside a sibling.
Wrappers == {"dict", "list", "dict2", "list2"}
Wrap(v, w) ==
    CASE w = "dict" -> PyDict("a" :> v)
      [] w = "list" -> PyList(<<v>>)
      [] w = "dict2" -> PyDict(("a" :> v) @@ ("b" :> PyStr(<<" ", "2", " ">>)))
      [] w = "list2" -> PyList(<<PyStr(<<"x">>), v>>)

\* The sequences of at most n wrappers.
RECURSIVE WrapPaths(_)
WrapPaths(n) ==
    IF n = 0 THEN {<<>>}
    ELSE LET shorter == WrapPaths(n - 1)
         IN  shorter \cup {Append(path, w) : path \in shorter, w \in Wrappers}

\* A leaf inside the containers of a path, the first of the path innermost.
RECURSIVE Nested(_, _)
Nested(leaf, path) ==
    IF path = <<>> THEN leaf ELSE Wrap(Nested(leaf, SubSeq(path, 1, Len(path) - 1)),
                                       path[Len(path)])

CoerceLeaves == StringLeaves \cup OtherLeaves

(***************************************************************************)
(* JSON text.  A raw text is the sequence of its tokens: the punctuation   *)
(* marks and the literals (strings, numbers, true, null), each literal     *)
(* with the Python value json.loads decodes it to.                         *)
(***************************************************************************)
Tok(mark) == [tok |-> mark]
Literal(v) == [tok |-> "literal", val |-> v]

\* The key a string names, and the string of a one-character key.
RECURSIVE Name(_)
Name(cs) == IF cs = <<>> THEN "" ELSE Head(cs) \o Name(Tail(cs))
KeyString(k) == PyStr(<<k>>)

RECURSIVE dumps(_)
RECURSIVE dumps_members(_, _)
dumps_members(d, keys) ==
    IF keys = <<>> THEN <<>>
    ELSE <<Literal(KeyString(Head(keys))), Tok(":")>> \o dumps(d[Head(keys)])
         \o (IF Len(keys) > 1 THEN <<Tok(",")>> ELSE <<>>)
         \o dumps_members(d, Tail(keys))

RECURSIVE dumps_elements(_)
dumps_elements(xs) ==
    IF xs = <<>> THEN <<>>
    ELSE dumps(Head(xs)) \o (IF Len(xs) > 1 THEN <<Tok(",")>> ELSE <<>>)
         \o dumps_elements(Tail(xs))

\* json.dumps: the text of a value.
dumps(v) ==
    IF v.t = "dict" THEN <<Tok("{")>> \o dumps_members(v.d, items(v.d)) \o <<Tok("}")>>
    ELSE IF v.t = "list" THEN <<Tok("[")>> \o dumps_elements(v.l) \o <<Tok("]")>>
    ELSE <<Literal(v)>>

\* The result of parsing a value at the head of a text.
ParseFail == [ok |-> FALSE]
ParseOk(v, rest) == [ok |-> TRUE, val |-> v, rest |-> rest]

RECURSIVE parse_value(_)
RECURSIVE parse_members(_, _)
RECURSIVE parse_elements(_, _)

\* The members of an object from its first key on; a repeated key keeps its
\* last value.
parse_members(ts, acc) ==
    IF Len(ts) < 2 THEN ParseFail
    ELSE IF ts[1].tok # "literal" THEN ParseFail
    ELSE IF ts[1].val.t # "str" \/ ts[2].tok # ":" THEN ParseFail
    ELSE LET r == parse_value(SubSeq(ts, 3, Len(ts)))
         IN  IF ~r.ok THEN ParseFail
             ELSE IF r.rest = <<>> THEN ParseFail
             ELSE LET acc2 == (Name(ts[1].val.s) :> r.val) @@ acc
                  IN  IF r.rest[1].tok = "}"
                      THEN ParseOk(PyDict(acc2), Tail(r.rest))
                      ELSE IF r.rest[1].tok = ","
                      THEN parse_members(Tail(r.rest), acc2)
                      ELSE ParseFail

\* The elements of an array from its first element on.
parse_elements(ts, acc) ==
    LET r == parse_value(ts)
    IN  IF ~r.ok THEN ParseFail
        ELSE IF r.rest = <<>> THEN ParseFail
        ELSE IF r.rest[1].tok = "]"
        THEN ParseOk(PyList(Append(acc, r.val)), Tail(r.rest))
        ELSE IF r.rest[1].tok = ","
        THEN parse_elements(Tail(r.rest), Append(acc, r.val))
        ELSE ParseFail

parse_value(ts) ==
    IF ts = <<>> THEN ParseFail
    ELSE IF ts[1].tok = "literal" THEN ParseOk(ts[1].val, Tail(ts))
    ELSE IF ts[1].tok = "{"
    THEN IF Len(ts) >= 2 /\ ts[2].tok = "}"
         THEN ParseOk(PyDict(EmptyMap), SubSeq(ts, 3, Len(ts)))
         ELSE parse_members(Tail(ts), EmptyMap)
    ELSE IF ts[1].tok = "["
    THEN IF Len(ts) >= 2 /\ ts[2].tok = "]"
         THEN ParseOk(PyList(<<>>), SubSeq(ts, 3, Len(ts)))
         ELSE parse_elements(Tail(ts), <<>>)
    ELSE ParseFail

\* json.loads: one value and nothing after it, or JSONDecodeError.
json_loads(ts) ==
    LET r == parse_value(ts)
    IN  IF r.ok /\ r.rest = <<>> THEN Return(r.val)
        ELSE Raise("JSONDecodeError", "")

\* src/utils.py, validate_json
validate_json(data) ==
    LET loaded == json_loads(data)
    IN  ~(loaded.kind = "raise" /\ loaded.exc.type = "JSONDecodeError")

(***************************************************************************)
(* The Output Processor.                                                   *)
(***************************************************************************)
\* Mutant of format: the top-level value is not required to be an object.
format_any_top_level(data) ==
    LET loaded == json_loads(data)
    IN  IF loaded.kind = "raise"
        THEN Raise("ProcessingError", "Failed to parse JSON")
        ELSE process_nested_structures(loaded.val)

\* OutputProcessor.format
format(data) ==
    LET loaded == json_loads(data)
    IN  IF loaded.kind = "raise"
        THEN (IF loaded.exc.type = "JSONDecodeError"
              THEN Raise("ProcessingError", "Failed to parse JSON")
              ELSE loaded)
        ELSE IF ~isinstance(loaded.val, "dict")
        THEN Raise("ProcessingError", "Output must be a JSON object")
        ELSE process_nested_structures(loaded.val)

\* ProcessingMode
STRICT == "strict"
LENIENT == "lenient"
IGNORE == "ignore"
ProcessingModes == {STRICT, LENIENT, IGNORE}

\* A ValidationResult.
ValidationResult(errors) == [valid |-> Len(errors) = 0, errors |-> errors]

\* What an operation did: its outcome and the functions it called, in order.
Did(out, called) == [out |-> out, calls |-> called]

\* Mutant of validate_parsed: a ProcessingError of format is recorded and
\* returned in strict mode too.
validate_parsed_no_reraise(mode, data, schema) ==
    LET formatted == format(data)
    IN  IF formatted.kind = "raise"
        THEN Did(Return([valid |-> FALSE, errors |-> <<formatted.exc.msg>>]),
                 <<"validate_json", "format">>)
        ELSE LET checked == validate_schema(formatted.val, schema)
                 called == <<"validate_json", "format", "validate_schema">>
                 errors == IF ~checked.val
                           THEN <<"Output does not match schema structure">>
                           ELSE <<>>
             IN  IF errors # <<>> /\ mode = STRICT
                 THEN Did(Raise("ValidationError",
                                "Output does not match schema structure"), called)
                 ELSE Did(Return(ValidationResult(errors)), called)

\* Mutant of validate_parsed: the schema is checked against the parsed value
\* as it was before the Type Coercer ran.
validate_parsed_raw(mode, data, schema) ==
    LET formatted == format(data)
    IN  IF formatted.kind = "raise"
        THEN IF mode = STRICT
             THEN Did(formatted, <<"validate_json", "format">>)
             ELSE Did(Return([valid |-> FALSE, errors |-> <<formatted.exc.msg>>]),
                      <<"validate_json", "format">>)
        ELSE LET checked == validate_schema(json_loads(data).val, schema)
                 called == <<"validate_json", "format", "validate_schema">>
                 errors == IF ~checked.val
                           THEN <<"Output does not match schema structure">>
                           ELSE <<>>
             IN  IF errors # <<>> /\ mode = STRICT
                 THEN Did(Raise("ValidationError",
                                "Output does not match schema structure"), called)
                 ELSE Did(Return(ValidationResult(errors)), called)

\* Mutant of validate_parsed: a ProcessingError of format is re-raised in
\* every mode.
validate_parsed_always_reraise(mode, data, schema) ==
    LET formatted == format(data)
    IN  IF formatted.kind = "raise"
        THEN Did(formatted, <<"validate_json", "format">>)
        ELSE LET checked == validate_schema(formatted.val, schema)
                 called == <<"validate_json", "format", "validate_schema">>
                 errors == IF ~checked.val
                           THEN <<"Output does not match schema structure">>
                           ELSE <<>>
             IN  IF errors # <<>> /\ mode = STRICT
                 THEN Did(Raise("ValidationError",
                                "Output does not match schema structure"), called)
                 ELSE Did(Return(ValidationResult(errors)), called)

\* OutputProcessor.validate from its call of format on (the text is
\* well-formed JSON).
validate_parsed(mode, data, schema) ==
    LET formatted == format(data)
    IN  IF formatted.kind = "raise"
        THEN IF formatted.exc.type = "ProcessingError"
             THEN IF mode = STRICT
                  THEN Did(formatted, <<"validate_json", "format">>)
                  ELSE Did(Return([valid |-> FALSE, errors |-> <<formatted.exc.msg>>]),
                           <<"validate_json", "format">>)
             ELSE Did(formatted, <<"validate_json", "format">>)
        ELSE LET checked == validate_schema(formatted.val, schema)
                 called == <<"validate_json", "format", "validate_schema">>
             IN  IF checked.kind = "raise" THEN Did(checked, called)
                 ELSE LET errors == IF ~checked.val
                                    THEN <<"Output does not match schema structure">>
                                    ELSE <<>>
                      IN  IF errors # <<>> /\ mode = STRICT
                          THEN Did(Raise("ValidationError",
                                         "Output does not match schema structure"),
                                   called)
                          ELSE Did(Return(ValidationResult(errors)), called)

\* Mutant of validate: the result for malformed JSON carries valid = true.
validate_malformed_valid(mode, data, schema) ==
    IF ~validate_json(data)
    THEN IF mode = STRICT
         THEN Did(Raise("ValidationError", "Invalid JSON format in output"),
                  <<"validate_json">>)
         ELSE Did(Return([valid |-> TRUE, errors |-> <<"Invalid JSON format">>]),
                  <<"validate_json">>)
    ELSE validate_parsed(mode, data, schema)

\* Mutant of validate: malformed JSON is reported by a returned result in
\* strict mode too.
validate_never_raises_on_json(mode, data, schema) ==
    IF ~validate_json(data)
    THEN Did(Return([valid |-> FALSE, errors |-> <<"Invalid JSON format">>]),
             <<"validate_json">>)
    ELSE validate_parsed(mode, data, schema)

\* OutputProcessor.validate, for a processor configured with error_handling
\* = mode.  The loop over custom_validators has an empty body.
validate(mode, data, schema) ==
    IF ~validate_json(data)
    THEN IF mode = STRICT
         THEN Did(Raise("ValidationError", "Invalid JSON format in output"),
                  <<"validate_json">>)
         ELSE Did(Return([valid |-> FALSE, errors |-> <<"Invalid JSON format">>]),
                  <<"validate_json">>)
    ELSE validate_parsed(mode, data, schema)

(***************************************************************************)
(* The raw texts drawn for the Output Processor: the texts of JSON values  *)
(* and, as malformed texts, those texts without their first or their last  *)
(* token.                                                                  *)
(***************************************************************************)
TextLeaves ==
    {PyStr(<<"1">>), PyStr(<<" ", "2", " ">>), PyStr(<<"x">>), PyStr(<<"FS", "1">>),
     PyInt(5), PyBool(TRUE), PyNone}

\* {"a": "1", "b": [" 2 ", "x"]} and [1, 2]
NamedObject ==
    PyDict(("a" :> PyStr(<<"1">>))
           @@ ("b" :> PyList(<<PyStr(<<" ", "2", " ">>), PyStr(<<"x">>)>>)))
NamedArray == PyList(<<PyInt(1), PyInt(2)>>)
\* {"a": "42"}
NamedNumericString == PyDict("a" :> PyStr(<<"4", "2">>))

NamedValues == {NamedObject, NamedArray, NamedNumericString}

\* A text of a value: whole, or without its first or its last token.
TextForms == {"whole", "no first token", "no last token"}
TextOf(v, form) ==
    LET text == dumps(v)
    IN  CASE form = "whole" -> text
          [] form = "no first token" -> Tail(text)
          [] form = "no last token" -> SubSeq(text, 1, Len(text) - 1)

OutputSchemas ==
    {DictDesc("a" :> TypeObj("int")), DictDesc("a" :> TypeObj("str")),
     DictDesc("a" :> DictDesc("a" :> TypeObj("int"))),
     DictDesc(("a" :> TypeObj("int")) @@ ("b" :> TypeObj("int"))),
     DictDesc("a" :> UnionOf(<<TypeObj("str"), TypeObj("NoneType")>>))}

\* The values whose texts are drawn.
TextValues ==
    NamedValues \cup {Nested(leaf, path) : leaf \in TextLeaves, path \in WrapPaths(MaxNest)}

InitOutput ==
    /\ \/ \E leaf \in CoerceLeaves, path \in WrapPaths(MaxNest) :
              call = [op |-> "coerce", data |-> Nested(leaf, path)]
       \/ \E v \in TextValues, form \in TextForms :
              \/ call = [op |-> "format", text |-> TextOf(v, form)]
              \/ \E m \in ProcessingModes, s \in OutputSchemas :
                     call = [op |-> "validate", mode |-> m,
                             text |-> TextOf(v, form), schema |-> s]
    /\ ret = Pending
    /\ calls = <<>>
    /\ registry = <<>>
    /\ tasks = <<>>

CoerceCall ==
    /\ call.op = "coerce"
    /\ ret = Pending
    /\ ret' = process_nested_structures(call.data)
    /\ UNCHANGED <<call, calls, registry, tasks>>

FormatCall ==
    /\ call.op = "format"
    /\ ret = Pending
    /\ ret' = format(call.text)
    /\ UNCHANGED <<call, calls, registry, tasks>>

ValidateCall ==
    /\ call.op = "validate"
    /\ ret = Pending
    /\ LET did == validate(call.mode, call.text, call.schema)
       IN  ret' = did.out /\ calls' = did.calls
    /\ UNCHANGED <<call, registry, tasks>>

NextOutput == CoerceCall \/ FormatCall \/ ValidateCall

SpecOutput == InitOutput /\ [][NextOutput]_vars

(***************************************************************************)
(* Properties of the Type Coercer and of the Output Processor, checked     *)
(* under SpecOutput.                                                       *)
(***************************************************************************)
\* C6: the Type Coercer is idempotent: for every JSON-like mapping M,
\* coerce(coerce(M)) equals coerce(M).
C6_CoerceIdempotent ==
    (call.op = "coerce" /\ Done /\ call.data.t = "dict" /\ ret.kind = "return") =>
        process_nested_structures(ret.val) = ret

\* What C7 says the Type Coercer returns for one string.
StringRule(cs, out) ==
    /\ IF HasPoint(cs) /\ py_float(cs).kind = "return"
       THEN out.t = "float" /\ out = py_float(cs).val
       ELSE IF ~HasPoint(cs) /\ py_int(cs).kind = "return"
       THEN out.t = "int" /\ out = py_int(cs).val
       ELSE out = PyStr(strip(cs, StripWhitespace))
    \* never a partial parse: a number comes from digits, points and blanks only
    /\ out.t \in {"int", "float"} =>
           \A i \in DOMAIN cs : IsDigit(cs[i]) \/ cs[i] \in {".", " "}
    /\ out.t = "str" =>
           \/ out.s = <<>>
           \/ Head(out.s) \notin StripWhitespace /\ out.s[Len(out.s)] \notin StripWhitespace

\* Every string leaf of a value, at any depth, follows StringRule.
RECURSIVE LeavesFollowRule(_, _)
LeavesFollowRule(in, out) ==
    IF in.t = "dict"
    THEN /\ out.t = "dict" /\ DOMAIN out.d = DOMAIN in.d
         /\ \A k \in DOMAIN in.d : LeavesFollowRule(in.d[k], out.d[k])
    ELSE IF in.t = "list"
    THEN /\ out.t = "list" /\ Len(out.l) = Len(in.l)
         /\ \A i \in DOMAIN in.l : LeavesFollowRule(in.l[i], out.l[i])
    ELSE IF in.t = "str" THEN StringRule(in.s, out)
    ELSE TRUE

\* C7: for every string leaf at any depth the Type Coercer returns the float
\* when the string holds a '.' and parses as a float, the integer when it
\* holds no '.' and parses as an integer, and otherwise the string without
\* its leading and trailing whitespace, never a partial parse: "42" gives
\* 42, "3.14" gives 3.14, "12.3.4" stays "12.3.4", and
\* format('{"a": "1", "b": [" 2 ", "x"]}') gives {"a": 1, "b": [2, "x"]}.
C7_StringLeafRule ==
    /\ (call.op = "coerce" /\ Done) =>
           /\ ret.kind = "return"
           /\ LeavesFollowRule(call.data, ret.val)
           /\ call.data = PyStr(<<"4", "2">>) => ret.val = PyInt(42)
           /\ call.data = PyStr(<<"3", ".", "1", "4">>) => ret.val = PyFloat(314, 2)
           /\ call.data = PyStr(<<"1", "2", ".", "3", ".", "4">>) =>
                  ret.val = PyStr(<<"1", "2", ".", "3", ".", "4">>)
    /\ (call.op = "format" /\ Done /\ call.text = dumps(NamedObject)) =>
           ret = Return(PyDict(("a" :> PyInt(1))
                               @@ ("b" :> PyList(<<PyInt(2), PyStr(<<"x">>)>>))))

\* A string with two points, two containers deep, was returned as the
\* trimmed string.
C7_Witness ==
    /\ call.op = "coerce" /\ Done
    /\ call.data = PyDict("a" :> PyList(<<PyStr(<<" ", ".", ".">>)>>))
    /\ ret = Return(PyDict("a" :> PyList(<<PyStr(<<".", ".">>)>>)))

\* A value and its coerced value have the same container shape.
RECURSIVE SameShape(_, _)
SameShape(in, out) ==
    IF in.t = "dict"
    THEN /\ out.t = "dict" /\ DOMAIN out.d = DOMAIN in.d
         /\ \A k \in DOMAIN in.d : SameShape(in.d[k], out.d[k])
    ELSE IF in.t = "list"
    THEN /\ out.t = "list" /\ Len(out.l) = Len(in.l)
         /\ \A i \in DOMAIN in.l :
                /\ SameShape(in.l[i], out.l[i])
                /\ Return(out.l[i]) = process_nested_structures(in.l[i])
    ELSE IF in.t = "str" THEN out.t \in {"str", "int", "float"}
    ELSE out = in

\* C8: the Type Coercer never fails and keeps the container shape: a mapping
\* gives a mapping with the same keys, a sequence a sequence of the same
\* length with its elements coerced in the same order, and a leaf that is no
\* string is returned unchanged.
C8_ShapePreserved ==
    (call.op = "coerce" /\ Done) =>
        /\ ret.kind = "return"
        /\ SameShape(call.data, ret.val)

\* A two-element sequence was coerced to a sequence whose elements differ
\* from each other and from the input's.
C8_Witness ==
    /\ call.op = "coerce" /\ Done
    /\ call.data = PyList(<<PyStr(<<"x">>), PyStr(<<"1", ".", "1">>)>>)
    /\ ret = Return(PyList(<<PyStr(<<"x">>), PyFloat(11, 1)>>))

\* C9: format fails with a ProcessingError whenever the raw text does not
\* parse as JSON or parses to a top-level value that is no object; otherwise
\* it returns the parsed object with the Type Coercer applied.
C9_FormatObjectOrError ==
    (call.op = "format" /\ Done) =>
        LET loaded == json_loads(call.text)
        IN  /\ IF loaded.kind = "raise"
               THEN ret = Raise("ProcessingError", "Failed to parse JSON")
               ELSE IF loaded.val.t # "dict"
               THEN ret = Raise("ProcessingError", "Output must be a JSON object")
               ELSE /\ ret = process_nested_structures(loaded.val)
                    /\ ret.kind = "return"
                    /\ ret.val.t = "dict"
                    /\ DOMAIN ret.val.d = DOMAIN loaded.val.d
            /\ call.text = dumps(NamedArray) =>
                   ret.kind = "raise" /\ ret.exc.type = "ProcessingError"

\* format was given the text of a JSON array and raised a ProcessingError.
C9_Witness ==
    /\ call.op = "format" /\ Done
    /\ call.text = dumps(NamedArray)
    /\ ret = Raise("ProcessingError", "Output must be a JSON object")

\* What validate returns for a text that is not well-formed JSON.
InvalidJsonResult == Return([valid |-> FALSE, errors |-> <<"Invalid JSON format">>])

\* C10: when the raw text is not well-formed JSON, validate records
\* "Invalid JSON format" and returns {valid: false, errors} at once, in every
\* error_handling mode, without running format or schema validation.
C10_InvalidJsonReturnsInEveryMode ==
    (call.op = "validate" /\ Done /\ ~validate_json(call.text)) =>
        /\ ret = InvalidJsonResult
        /\ calls = <<"validate_json">>

\* C10 as amended: when the raw text is not well-formed JSON, validate runs
\* neither format nor schema validation; under error_handling = lenient or
\* ignore it returns {valid: false, errors: ["Invalid JSON format"]} at once,
\* and under error_handling = strict it raises a ValidationError instead.
C10_InvalidJsonByMode ==
    (call.op = "validate" /\ Done /\ ~validate_json(call.text)) =>
        /\ calls = <<"validate_json">>
        /\ call.mode \in {LENIENT, IGNORE} => ret = InvalidJsonResult
        /\ call.mode = STRICT =>
               ret = Raise("ValidationError", "Invalid JSON format in output")

\* validate was given malformed JSON in strict mode and raised.
C10_Witness ==
    /\ call.op = "validate" /\ Done
    /\ call.mode = STRICT
    /\ ~validate_json(call.text)
    /\ ret.kind = "raise" /\ ret.exc.type = "ValidationError"
    /\ calls = <<"validate_json">>

\* The coerced object of a well-formed text of a JSON object.
Coerced(text) == process_nested_structures(json_loads(text).val).val

ValidResult == Return([valid |-> TRUE, errors |-> <<>>])

\* C11: under error_handling = strict, validate on well-formed JSON re-raises
\* the ProcessingError when the top-level value is not an object, raises a
\* ValidationError when the coerced object does not match the schema, and
\* returns {valid: true, errors: []} only when the coerced object matches.
C11_StrictWellFormed ==
    (call.op = "validate" /\ Done /\ call.mode = STRICT /\ validate_json(call.text)) =>
        IF json_loads(call.text).val.t # "dict"
        THEN /\ ret = Raise("ProcessingError", "Output must be a JSON object")
             /\ ret = format(call.text)
        ELSE IF validate_schema(Coerced(call.text), call.schema) = Return(TRUE)
        THEN ret = ValidResult
        ELSE ret.kind = "raise" /\ ret.exc.type = "ValidationError"

\* Strict validate was given the text of a JSON array and re-raised format's
\* ProcessingError.
C11_Witness ==
    /\ call.op = "validate" /\ Done
    /\ call.mode = STRICT
    /\ call.text = dumps(NamedArray)
    /\ ret.kind = "raise" /\ ret.exc.type = "ProcessingError"
    /\ calls = <<"validate_json", "format">>

\* C14: output-schema validation is applied to the coerced value: for a
\* string-tagged field whose raw value is a numeric-looking string, validate
\* reports a schema error (a ValidationError in strict mode, valid = false
\* otherwise).
C14_SchemaSeesCoercedValue ==
    (/\ call.op = "validate" /\ Done
     /\ call.text = dumps(NamedNumericString)
     /\ call.schema = DictDesc("a" :> TypeObj("str"))) =>
        /\ validate_schema(json_loads(call.text).val, call.schema) = Return(TRUE)
        /\ Coerced(call.text) = PyDict("a" :> PyInt(42))
        /\ IF call.mode = STRICT
           THEN ret = Raise("ValidationError", "Output does not match schema structure")
           ELSE ret = Return([valid |-> FALSE,
                              errors |-> <<"Output does not match schema structure">>])

\* Lenient validate was given {"a": "42"} against {"a": str} and reported
\* the schema error.
C14_Witness ==
    /\ call.op = "validate" /\ Done
    /\ call.mode = LENIENT
    /\ call.text = dumps(NamedNumericString)
    /\ call.schema = DictDesc("a" :> TypeObj("str"))
    /\ ret.kind = "return" /\ ~ret.val.valid
    /\ calls = <<"validate_json", "format", "validate_schema">>

(***************************************************************************)
(* The Input Processor, src/processors/input.py.                           *)
(***************************************************************************)
\* Mutant of input_validate: under ignore no error is recorded and the data
\* is reported valid.
input_validate_ignore_reports_valid(mode, data, schema) ==
    LET checked == validate_schema(data, schema)
        errors == IF ~checked.val /\ mode # IGNORE
                  THEN <<"Data does not match schema structure">>
                  ELSE <<>>
    IN  IF errors # <<>> /\ mode = STRICT
        THEN Raise("ValidationError", "Data does not match schema structure")
        ELSE Return(ValidationResult(errors))

\* Mutant of input_validate: a mismatch is returned in strict mode too.
input_validate_never_raises(mode, data, schema) ==
    LET checked == validate_schema(data, schema)
        errors == IF ~checked.val
                  THEN <<"Data does not match schema structure">>
                  ELSE <<>>
    IN  Return(ValidationResult(errors))

\* InputProcessor.validate, for a processor configured with error_handling
\* = mode.  The loop over custom_validators has an empty body.
input_validate(mode, data, schema) ==
    LET checked == validate_schema(data, schema)
        errors == IF ~checked.val
                  THEN <<"Data does not match schema structure">>
                  ELSE <<>>
    IN  IF errors # <<>> /\ mode = STRICT
        THEN Raise("ValidationError", "Data does not match schema structure")
        ELSE Return(ValidationResult(errors))

\* str.lower, on the letters drawn.
lower_char(c) == CASE c = "A" -> "a" [] c = "B" -> "b" [] c = "C" -> "c" [] OTHER -> c
lower(cs) == [i \in DOMAIN cs |-> lower_char(cs[i])]

\* str.replace(old, ""), for a one-character old.
RECURSIVE replace(_, _)
replace(cs, old) ==
    IF cs = <<>> THEN <<>>
    ELSE IF Head(cs) = old THEN replace(Tail(cs), old)
    ELSE <<Head(cs)>> \o replace(Tail(cs), old)

\* The characters str.isdigit accepts: the decimal digits and digits that
\* are not decimal, such as the superscript two.
IsDigitChar(c) == IsDigit(c) \/ c = "SUP2"

\* str.isdigit
isdigit(cs) == cs # <<>> /\ \A i \in DOMAIN cs : IsDigitChar(cs[i])

\* Mutant of process_value: a numeric string is lowercased and kept.
process_value_keep_strings(value) ==
    IF isinstance(value, "str") THEN PyStr(lower(value.s)) ELSE value

\* The body of the loop of InputProcessor.process for one value.
process_value(value) ==
    IF ~isinstance(value, "str") THEN value
    ELSE LET lowered == PyStr(lower(value.s))
         IN  IF isdigit(replace(value.s, "."))
             THEN LET parsed == IF HasPoint(value.s) THEN py_float(value.s)
                                ELSE py_int(value.s)
                  IN  IF parsed.kind = "return" THEN parsed.val ELSE lowered
             ELSE lowered

\* What a call left behind: its outcome and the caller's mapping after it.
Left(out, data) == [out |-> out, data |-> data]

\* InputProcessor.process
input_process(data) ==
    LET processed_data == [k \in DOMAIN data.d |-> process_value(data.d[k])]
    IN  Left(Return(PyDict(processed_data)), data)

\* str.replace(old, "") for a substring old: the occurrences found from the
\* left, none overlapping another, are removed in one pass.
RECURSIVE replace_sub(_, _)
replace_sub(cs, old) ==
    IF cs = <<>> THEN <<>>
    ELSE IF Len(old) <= Len(cs) /\ SubSeq(cs, 1, Len(old)) = old
         THEN replace_sub(SubSeq(cs, Len(old) + 1, Len(cs)), old)
    ELSE <<Head(cs)>> \o replace_sub(Tail(cs), old)

\* The substrings "<script>" and "</script>".
ScriptTag == <<"<", "s", "c", "r", "i", "p", "t", ">">>
ScriptEndTag == <<"<", "/", "s", "c", "r", "i", "p", "t", ">">>

\* InputProcessor.sanitize: each top-level string goes through the
\* replacements of lines 113 and 115, in their order.
sanitize(data) ==
    LET sanitize_value(value) ==
            IF ~isinstance(value, "str") THEN value
            ELSE LET unquoted == replace(replace(replace(value.s, "'"), "\""), ";")
                 IN  PyStr(replace_sub(replace_sub(unquoted, ScriptTag), ScriptEndTag))
        sanitized_data == [k \in DOMAIN data.d |-> sanitize_value(data.d[k])]
    IN  Left(Return(PyDict(sanitized_data)), data)

(***************************************************************************)
(* OutputProcessor.enrich_output.                                          *)
(***************************************************************************)
\* bool(value)
truthy(value) ==
    CASE value.t = "NoneType" -> FALSE
      [] value.t = "bool" -> value.b
      [] value.t = "int" -> value.i # 0
      [] value.t = "float" -> value.f[1] # 0
      [] value.t = "str" -> value.s # <<>>
      [] value.t = "list" -> value.l # <<>>
      [] value.t = "dict" -> DOMAIN value.d # {}

\* The metadata block, for a clock reading.
Metadata(now) ==
    PyDict(("timestamp" :> PyStr(<<now>>)) @@ ("version" :> PyStr(<<"1.0.0">>)))

\* OutputProcessor.enrich_output; now is what _get_timestamp reads.
enrich_output(data, context, now) ==
    LET copied == data.d
        with_context == IF truthy(context)
                        THEN ("_context" :> context) @@ copied ELSE copied
    IN  Left(Return(PyDict(("_metadata" :> Metadata(now)) @@ with_context)), data)

(***************************************************************************)
(* The calls drawn for the two processors.                                 *)
(***************************************************************************)
InputAlphabet == {"1", ".", "A", " ", "SUP2"}

\* The strings over an alphabet of at most n characters.
RECURSIVE StringsOver(_, _)
StringsOver(alphabet, n) ==
    IF n = 0 THEN {<<>>}
    ELSE LET shorter == StringsOver(alphabet, n - 1)
         IN  shorter \cup {Append(cs, c) : cs \in shorter, c \in alphabet}

\* "123", "12.3.4", "1.5", "ABC", "Boston"
InputNamedStrings ==
    {<<"1", "2", "3">>, <<"1", "2", ".", "3", ".", "4">>, <<"1", ".", "5">>,
     <<"A", "B", "C">>, <<"B", "o", "s", "t", "o", "n">>}

InputStrings ==
    {PyStr(cs) : cs \in StringsOver(InputAlphabet, MaxStrLen) \cup InputNamedStrings}

\* Values that are no strings, two of them with strings inside.
InputOtherValues ==
    {PyInt(5), PyBool(TRUE), PyNone, PyFloat(15, 1),
     PyList(<<PyStr(<<"A", "1">>)>>), PyDict("a" :> PyStr(<<"1">>))}

InputSiblings == {PyStr(<<"A">>), PyList(<<PyStr(<<"1">>)>>)}

\* Values to sanitize: the strings over the characters sanitize removes, x
\* and <, strings with the two tags in them ("<script>", "</script>",
\* "a<script>b;c", "<scr'ipt>", "<scr<script>ipt>", "</scr<script>ipt>",
\* "<script</script>>" and "</</script>script>"), and values sanitize leaves
\* alone, two of them with a character to remove inside.
SanitizeValues ==
    LET tagged ==
            {ScriptTag, ScriptEndTag,
             <<"a">> \o ScriptTag \o <<"b", ";", "c">>,
             SubSeq(ScriptTag, 1, 4) \o <<"'">> \o SubSeq(ScriptTag, 5, 8),
             SubSeq(ScriptTag, 1, 4) \o ScriptTag \o SubSeq(ScriptTag, 5, 8),
             SubSeq(ScriptEndTag, 1, 5) \o ScriptTag \o SubSeq(ScriptEndTag, 6, 9),
             SubSeq(ScriptTag, 1, 7) \o ScriptEndTag \o <<">">>,
             SubSeq(ScriptEndTag, 1, 2) \o ScriptEndTag \o SubSeq(ScriptEndTag, 3, 9)}
        short == StringsOver({"'", "\"", ";", "x", "<"}, MaxStrLen)
    IN  {PyStr(cs) : cs \in short \cup tagged}
        \cup {PyInt(5), PyNone, PyList(<<PyStr(<<"'">>)>>),
              PyDict("a" :> PyStr(<<";", "x">>))}

\* Data and schemas for InputProcessor.validate.
ValidateData == ValuesUpTo(1)
ValidateSchemas == DescsUpTo(1)

\* What _get_timestamp may read.
Clock == {"T1", "T2"}

\* Outputs to enrich, two of them with a reserved key of their own.
EnrichData ==
    {PyDict(EmptyMap), PyDict("a" :> PyInt(1)),
     PyDict(("a" :> PyInt(1)) @@ ("_metadata" :> PyStr(<<"x">>))),
     PyDict(("a" :> PyInt(1)) @@ ("_context" :> PyStr(<<"x">>)))}

\* The context of IntentionClient.process, an empty context, no context.
ClientContext ==
    PyDict(("template" :> PyStr(<<"t">>)) @@ ("provider" :> PyStr(<<"P">>))
           @@ ("input" :> PyDict("a" :> PyInt(1))))
Contexts == {PyNone, PyDict(EmptyMap), ClientContext, PyDict("a" :> PyInt(1))}

InitProcessors ==
    /\ \/ \E m \in ProcessingModes, d \in ValidateData, s \in ValidateSchemas :
              call = [op |-> "input_validate", mode |-> m, data |-> d, schema |-> s]
       \/ \E v \in InputStrings \cup InputOtherValues :
              \/ call = [op |-> "process", data |-> PyDict("a" :> v)]
              \/ \E w \in InputSiblings :
                     call = [op |-> "process", data |-> PyDict(("a" :> v) @@ ("b" :> w))]
       \/ call = [op |-> "process", data |-> PyDict(EmptyMap)]
       \/ \E v \in SanitizeValues :
              \/ call = [op |-> "sanitize", data |-> PyDict("a" :> v)]
              \/ \E w \in {PyStr(<<"x", ";">>), PyInt(5)} :
                     call = [op |-> "sanitize", data |-> PyDict(("a" :> v) @@ ("b" :> w))]
       \/ call = [op |-> "sanitize", data |-> PyDict(EmptyMap)]
       \/ \E d \in EnrichData, c \in Contexts, now \in Clock :
              call = [op |-> "enrich_output", data |-> d, context |-> c, now |-> now]
       \/ \E v \in TextValues, form \in TextForms, m \in ProcessingModes,
             s \in OutputSchemas :
              call = [op |-> "validate", mode |-> m, text |-> TextOf(v, form),
                      schema |-> s]
    /\ ret = Pending
    /\ calls = <<>>
    /\ registry = <<>>
    /\ tasks = <<>>

InputValidateCall ==
    /\ call.op = "input_validate"
    /\ ret = Pending
    /\ ret' = input_validate(call.mode, call.data, call.schema)
    /\ UNCHANGED <<call, calls, registry, tasks>>

ProcessCall ==
    /\ call.op = "process"
    /\ ret = Pending
    /\ LET left == input_process(call.data)
       IN  ret' = left.out /\ call' = [call EXCEPT !.data = left.data]
    /\ UNCHANGED <<calls, registry, tasks>>

EnrichCall ==
    /\ call.op = "enrich_output"
    /\ ret = Pending
    /\ LET left == enrich_output(call.data, call.context, call.now)
       IN  ret' = left.out /\ call' = [call EXCEPT !.data = left.data]
    /\ UNCHANGED <<calls, registry, tasks>>

SanitizeCall ==
    /\ call.op = "sanitize"
    /\ ret = Pending
    /\ LET left == sanitize(call.data)
       IN  ret' = left.out /\ call' = [call EXCEPT !.data = left.data]
    /\ UNCHANGED <<calls, registry, tasks>>

NextProcessors ==
    InputValidateCall \/ ProcessCall \/ SanitizeCall \/ EnrichCall \/ ValidateCall

SpecProcessors == InitProcessors /\ [][NextProcessors]_vars

(***************************************************************************)
(* Properties of the two processors, checked under SpecProcessors.         *)
(***************************************************************************)
\* The text is well-formed JSON, an object, and its coerced value matches.
OutputMatches(text, schema) ==
    /\ validate_json(text)
    /\ json_loads(text).val.t = "dict"
    /\ validate_schema(Coerced(text), schema) = Return(TRUE)

\* The call of a validate method has a failure to report.
Fails ==
    IF call.op = "input_validate"
    THEN validate_schema(call.data, call.schema) # Return(TRUE)
    ELSE ~OutputMatches(call.text, call.schema)

SchemaMismatch ==
    Return([valid |-> FALSE, errors |-> <<"Data does not match schema structure">>])

\* C13: under error_handling = strict, InputProcessor.validate raises a
\* ValidationError exactly when validate_schema(data, schema) is false and
\* otherwise returns {valid: true, errors: []}; in a non-strict mode a
\* mismatch returns valid = false with the single error "Data does not match
\* schema structure".
C13_InputValidateByMode ==
    (call.op = "input_validate" /\ Done) =>
        LET matches == validate_schema(call.data, call.schema) = Return(TRUE)
        IN  /\ call.mode = STRICT =>
                 /\ (ret.kind = "raise") <=> ~matches
                 /\ ret.kind = "raise" => ret.exc.type = "ValidationError"
                 /\ matches => ret = ValidResult
            /\ (call.mode # STRICT /\ ~matches) => ret = SchemaMismatch
            /\ (call.mode # STRICT /\ matches) => ret = ValidResult

\* Strict InputProcessor.validate was given {"x": 5} against {"x": str} and
\* raised.
C13_Witness ==
    /\ call.op = "input_validate" /\ Done
    /\ call.mode = STRICT
    /\ call.data = PyDict("x" :> PyInt(5))
    /\ call.schema = DictDesc("x" :> TypeObj("str"))
    /\ ret = Raise("ValidationError", "Data does not match schema structure")

\* C16: every ValidationResult returned by InputProcessor.validate or
\* OutputProcessor.validate, on every return path and in every mode,
\* satisfies valid = (errors is empty).
C16_ValidIffNoErrors ==
    (call.op \in {"input_validate", "validate"} /\ Done /\ ret.kind = "return") =>
        /\ DOMAIN ret.val = {"valid", "errors"}
        /\ ret.val.valid <=> (ret.val.errors = <<>>)

\* OutputProcessor.validate returned early for malformed JSON, with errors.
C16_Witness ==
    /\ call.op = "validate" /\ Done
    /\ ~validate_json(call.text)
    /\ ret.kind = "return"
    /\ ~ret.val.valid /\ ret.val.errors = <<"Invalid JSON format">>

\* A string of decimal digits and at most one point, with a digit in it.
NumberLike(cs) ==
    /\ \A i \in DOMAIN cs : IsDigit(cs[i]) \/ cs[i] = "."
    /\ \E i \in DOMAIN cs : IsDigit(cs[i])
    /\ Cardinality({i \in DOMAIN cs : cs[i] = "."}) <= 1

\* What C15 says InputProcessor.process returns for one top-level value.
ValueRule(in, out) ==
    IF in.t # "str" THEN out = in
    ELSE IF NumberLike(in.s)
    THEN IF HasPoint(in.s)
         THEN out.t = "float" /\ out = py_float(in.s).val
         ELSE out.t = "int" /\ out = py_int(in.s).val
    ELSE out = PyStr(lower(in.s))

ProcessRule(in, out) ==
    /\ out.t = "dict"
    /\ DOMAIN out.d = DOMAIN in.d
    /\ \A k \in DOMAIN in.d : ValueRule(in.d[k], out.d[k])
    /\ \A k \in DOMAIN in.d :
           /\ in.d[k] = PyStr(<<"1", "2", "3">>) => out.d[k] = PyInt(123)
           /\ in.d[k] = PyStr(<<"1", ".", "5">>) => out.d[k] = PyFloat(15, 1)
           /\ in.d[k] = PyStr(<<"A", "B", "C">>) => out.d[k] = PyStr(<<"a", "b", "c">>)
           /\ in.d[k] = PyStr(<<"1", "2", ".", "3", ".", "4">>) => out.d[k] = in.d[k]

\* C15: InputProcessor.process never fails, leaves the caller's mapping
\* unchanged, and returns a copy in which each top-level string value is
\* lowercased, or replaced by the parsed number (float with a '.', else
\* integer) when it consists solely of digits and at most one '.'; a string
\* with two or more dots stays a lowercased string and non-string values,
\* with the strings inside them, pass through unchanged.
C15_ProcessRule ==
    [][ProcessCall =>
          /\ call'.data = call.data
          /\ ret'.kind = "return"
          /\ ProcessRule(call.data, ret'.val)]_vars

\* process was given {"a": "12.3.4", "b": "A"} and returned the two strings
\* lowercased.
C15_Witness ==
    /\ call.op = "process" /\ Done
    /\ call.data = PyDict(("a" :> PyStr(<<"1", "2", ".", "3", ".", "4">>))
                          @@ ("b" :> PyStr(<<"A">>)))
    /\ ret = Return(PyDict(("a" :> PyStr(<<"1", "2", ".", "3", ".", "4">>))
                           @@ ("b" :> PyStr(<<"a">>))))

ReservedKeys == {"_context", "_metadata"}

\* C17: enrich_output never fails, leaves its data argument unchanged, and
\* returns a copy that keeps every original key and value, always carries
\* the metadata block (timestamp and version "1.0.0") under _metadata, carries
\* the context verbatim under _context whenever a context is supplied, an
\* empty context mapping included, and adds no _context when none is supplied.
C17_EnrichOutput ==
    [][EnrichCall =>
          /\ call'.data = call.data
          /\ ret'.kind = "return"
          /\ LET in == call.data.d
                 out == ret'.val.d
             IN  /\ \A k \in DOMAIN in \ ReservedKeys : k \in DOMAIN out /\ out[k] = in[k]
                 /\ DOMAIN out \subseteq DOMAIN in \cup ReservedKeys
                 /\ "_metadata" \in DOMAIN out
                 /\ out["_metadata"] = Metadata(call.now)
                 /\ call.context.t # "NoneType" =>
                        "_context" \in DOMAIN out /\ out["_context"] = call.context
                 /\ call.context.t = "NoneType" =>
                        ("_context" \in DOMAIN out =>
                            "_context" \in DOMAIN in /\ out["_context"] = in["_context"])]_vars

(***************************************************************************)
(* Templates and the Template Registry, src/core/template.py.              *)
(***************************************************************************)
\* A subclass of Template: its class-level schemas, and whether it overrides
\* format_prompt and format_output.
TemplateClass(id, input_schema, output_schema, implements) ==
    [id |-> id, input_schema |-> input_schema, output_schema |-> output_schema,
     implements |-> implements]

\* An instance of a template class; its schemas are those of its class.
Instance(cls, name) == [metadata |-> [name |-> name], cls |-> cls]

\* Mutant of validate_schemas: only the input schema is looked at.
validate_schemas_input_only(cls) ==
    IF DOMAIN cls.input_schema.d = {}
    THEN Raise("ValidationError", "Input schema must be defined")
    ELSE Return(PyNone)

\* Template._validate_schemas
validate_schemas(cls) ==
    IF DOMAIN cls.input_schema.d = {}
    THEN Raise("ValidationError", "Input schema must be defined")
    ELSE IF DOMAIN cls.output_schema.d = {}
    THEN Raise("ValidationError", "Output schema must be defined")
    ELSE Return(PyNone)

\* Template.__init__, called as cls(name=name, description=description)
construct(cls, name) ==
    LET validated == validate_schemas(cls)
    IN  IF validated.kind = "raise" THEN validated ELSE Return(Instance(cls, name))

\* The position of a name in the registry, 0 if it has none.  The registry
\* is a dict: its templates in the order in which their names were inserted.
Position(templates, name) ==
    IF \E i \in DOMAIN templates : templates[i].metadata.name = name
    THEN CHOOSE i \in DOMAIN templates : templates[i].metadata.name = name
    ELSE 0

\* Mutant of register: a name that is registered keeps its template.
register_first_wins(templates, template) ==
    IF Position(templates, template.metadata.name) = 0
    THEN Append(templates, template)
    ELSE templates

\* TemplateRegistry.register: the registry after the call.
register(templates, template) ==
    LET i == Position(templates, template.metadata.name)
    IN  IF i = 0 THEN Append(templates, template)
        ELSE [templates EXCEPT ![i] = template]

\* TemplateRegistry.get
get(templates, name) ==
    IF Position(templates, name) = 0
    THEN Raise("KeyError", "Template not found")
    ELSE Return(templates[Position(templates, name)])

\* TemplateRegistry.list
list(templates) == Return([i \in DOMAIN templates |-> templates[i].metadata.name])

\* The decorator returned by template(name): construct, then register.
decorator(templates, name, cls) ==
    LET template_instance == construct(cls, name)
    IN  IF template_instance.kind = "raise"
        THEN [out |-> template_instance, templates |-> templates, registered |-> <<>>]
        ELSE [out |-> Return(cls),
              templates |-> register(templates, template_instance.val),
              registered |-> <<template_instance.val>>]

(***************************************************************************)
(* The template classes and names drawn, and the specification of the      *)
(* registry.                                                               *)
(***************************************************************************)
\* Number of register calls in one behaviour.
MaxRegisters == 2

Names == {"t1", "t2"}

StrField == DictDesc("a" :> TypeObj("str"))
IntField == DictDesc("a" :> TypeObj("int"))
NoFields == DictDesc(EmptyMap)

ClassA == TemplateClass("A", StrField, IntField, TRUE)
ClassB == TemplateClass("B", StrField, StrField, TRUE)
\* Schemas declared, format_prompt and format_output inherited.
ClassBase == TemplateClass("Base", StrField, IntField, FALSE)
ClassNoInput == TemplateClass("NoInput", NoFields, IntField, TRUE)
ClassNoOutput == TemplateClass("NoOutput", StrField, NoFields, TRUE)
\* Template itself: both class-level schemas are {}.
ClassTemplate == TemplateClass("Template", NoFields, NoFields, FALSE)

TemplateClasses ==
    {ClassA, ClassB, ClassBase, ClassNoInput, ClassNoOutput, ClassTemplate}

\* The instances that exist: those whose construction returned.
Instances ==
    {construct(cls, name).val :
        cls \in {c \in TemplateClasses : construct(c, "t1").kind = "return"},
        name \in Names}

InitRegistry ==
    /\ call = [op |-> "none"]
    /\ ret = Pending
    /\ calls = <<>>
    /\ registry = <<>>
    /\ tasks = <<>>

\* @template(name) applied to a class.
TemplateDecorator(name, cls) ==
    /\ Len(calls) < MaxRegisters
    /\ LET did == decorator(registry, name, cls)
       IN  /\ call' = [op |-> "template", name |-> name, cls |-> cls]
           /\ ret' = did.out
           /\ registry' = did.templates
           /\ calls' = calls \o did.registered
    /\ UNCHANGED tasks

\* TemplateRegistry.register(template)
RegisterCall(template) ==
    /\ Len(calls) < MaxRegisters
    /\ call' = [op |-> "register", template |-> template]
    /\ ret' = Return(PyNone)
    /\ registry' = register(registry, template)
    /\ calls' = Append(calls, template)
    /\ UNCHANGED tasks

\* TemplateRegistry.get(name)
GetCall(name) ==
    /\ call' = [op |-> "get", name |-> name]
    /\ ret' = get(registry, name)
    /\ UNCHANGED <<calls, registry, tasks>>

\* TemplateRegistry.list()
ListCall ==
    /\ call' = [op |-> "list"]
    /\ ret' = list(registry)
    /\ UNCHANGED <<calls, registry, tasks>>

NextRegistry ==
    \/ \E name \in Names, cls \in TemplateClasses : TemplateDecorator(name, cls)
    \/ \E template \in Instances : RegisterCall(template)
    \/ \E name \in Names : GetCall(name)
    \/ ListCall

SpecRegistry == InitRegistry /\ [][NextRegistry]_vars

(***************************************************************************)
(* Properties of the registry, checked under SpecRegistry.                 *)
(***************************************************************************)
\* The register calls made so far under a name, as indices of the log.
RegisteredAs(name) == {i \in DOMAIN calls : calls[i].metadata.name = name}

\* What get(name) has to give after the register calls made so far.
LastWrite(name) ==
    IF RegisteredAs(name) = {}
    THEN Raise("KeyError", "Template not found")
    ELSE Return(calls[CHOOSE i \in RegisteredAs(name) :
                          \A j \in RegisteredAs(name) : j <= i])

RegistryNames(templates) == {templates[i].metadata.name : i \in DOMAIN templates}

\* C18: after any sequence of register calls the registry is a last-write-wins
\* map that never shrinks: get(name) returns the template most recently
\* registered under the name, a second registration under a name replaces the
\* first without error, get of a name never registered fails with a lookup
\* error and leaves the registry unchanged, and list() returns exactly the
\* names registered so far.
C18_LastWriteWins ==
    /\ [](/\ \A name \in Names : get(registry, name) = LastWrite(name)
          /\ call.op = "get" => ret = LastWrite(call.name)
          /\ call.op = "register" => ret = Return(PyNone)
          /\ call.op = "list" =>
                 /\ ret.kind = "return"
                 /\ {ret.val[i] : i \in DOMAIN ret.val}
                        = {name \in Names : RegisteredAs(name) # {}}
                 /\ Len(ret.val) = Cardinality(RegistryNames(registry)))
    /\ [][/\ RegistryNames(registry) \subseteq RegistryNames(registry')
          /\ \A name \in Names : GetCall(name) => registry' = registry]_vars

\* Two templates were registered under t1 and get("t1") returned the second.
C18_Witness ==
    /\ call = [op |-> "get", name |-> "t1"]
    /\ Len(calls) >= 2
    /\ calls[1] = Instance(ClassA, "t1")
    /\ calls[2] = Instance(ClassB, "t1")
    /\ ret = Return(Instance(ClassB, "t1"))

HasEmptySchema(cls) ==
    DOMAIN cls.input_schema.d = {} \/ DOMAIN cls.output_schema.d = {}

\* C19: constructing a template whose input_schema or output_schema is empty
\* fails with a ValidationError, and the decorator, which constructs before
\* it registers, then registers nothing: every template in the registry has
\* a non-empty input schema and a non-empty output schema.
C19_NoEmptySchemaRegistered ==
    /\ [](\A i \in DOMAIN registry : ~HasEmptySchema(registry[i].cls))
    /\ [][\A name \in Names, cls \in TemplateClasses :
             TemplateDecorator(name, cls) =>
                 IF HasEmptySchema(cls)
                 THEN /\ ret'.kind = "raise" /\ ret'.exc.type = "ValidationError"
                      /\ ret' = construct(cls, name)
                      /\ registry' = registry
                 ELSE /\ ret' = Return(cls)
                      /\ get(registry', name) = Return(Instance(cls, name))]_vars

\* The decorator was applied to a class without output schema, raised, and
\* left the one registered template alone.
C19_Witness ==
    /\ call = [op |-> "template", name |-> "t1", cls |-> ClassNoOutput]
    /\ ret = Raise("ValidationError", "Output schema must be defined")
    /\ registry = <<Instance(ClassA, "t1")>>

(***************************************************************************)
(* IntentionClient.process, src/core/client.py.  A call runs without       *)
(* interruption up to its one await, of provider.complete, and again from  *)
(* the provider's answer to its end.                                       *)
(***************************************************************************)
\* Template.format_prompt: the base method raises, an override returns a
\* prompt made from the data.
format_prompt(template, data) ==
    IF template.cls.implements
    THEN Return([template |-> template.cls.id, data |-> data])
    ELSE Raise("NotImplementedError", "Subclasses must implement format_prompt")

\* Template.format_output: the base method raises; an override, as the one of
\* src/demo.py, parses the response and raises ValueError unless it is a JSON
\* object.
format_output(template, response) ==
    IF ~template.cls.implements
    THEN Raise("NotImplementedError", "Subclasses must implement format_output")
    ELSE LET loaded == json_loads(response)
         IN  IF loaded.kind = "raise" \/ loaded.val.t # "dict"
             THEN Raise("ValueError", "Invalid JSON response from LLM")
             ELSE loaded

\* A step of a call that has been started, and whether it raised.
Step(step, raised) == [step |-> step, raised |-> raised]
Ran(steps) == [i \in DOMAIN steps |-> Step(steps[i], FALSE)]
Failed(steps) ==
    [i \in DOMAIN steps |-> Step(steps[i], i = Len(steps))]

\* A call of process: where it is, its arguments, its local variables
\* (template, processed_input, prompt, response), the steps it has started and
\* its outcome.
Idle == [pc |-> "idle", trace |-> <<>>, out |-> Pending]
Task(pc, args, template, processed_input, prompt, trace, out) ==
    [pc |-> pc, mode |-> args.mode, template_name |-> args.template_name,
     data |-> args.data, template |-> template,
     processed_input |-> processed_input, prompt |-> prompt, response |-> PyNone,
     trace |-> trace, out |-> out]

\* Mutant of process_start: a ValidationError of input validation is dropped
\* and the call goes on.
process_start_ignores_invalid(templates, mode, template_name, data) ==
    LET args == [mode |-> mode, template_name |-> template_name, data |-> data]
        got == get(templates, template_name)
    IN  IF got.kind = "raise"
        THEN Task("done", args, PyNone, PyNone, PyNone, Failed(<<"get">>), got)
        ELSE
    LET template == got.val
        validated == input_validate(mode, data, template.cls.input_schema)
        processed_input == input_process(data).out.val
        prompt == format_prompt(template, processed_input)
        begun == <<Step("get", FALSE), Step("input_validate", validated.kind = "raise"),
                   Step("input_process", FALSE)>>
    IN  IF prompt.kind = "raise"
        THEN Task("done", args, template, processed_input, PyNone,
                  begun \o <<Step("format_prompt", TRUE)>>, prompt)
        ELSE Task("awaiting", args, template, processed_input, prompt.val,
                  begun \o Ran(<<"format_prompt", "complete">>), Pending)

\* Mutant of process_start: the normalised input is validated against the
\* input schema once more before it is formatted into the prompt.
process_start_revalidates(templates, mode, template_name, data) ==
    LET args == [mode |-> mode, template_name |-> template_name, data |-> data]
        got == get(templates, template_name)
    IN  IF got.kind = "raise"
        THEN Task("done", args, PyNone, PyNone, PyNone, Failed(<<"get">>), got)
        ELSE
    LET template == got.val
        validated == input_validate(mode, data, template.cls.input_schema)
    IN  IF validated.kind = "raise"
        THEN Task("done", args, template, PyNone, PyNone,
                  Failed(<<"get", "input_validate">>), validated)
        ELSE
    LET processed_input == input_process(data).out.val
        revalidated == input_validate(mode, processed_input, template.cls.input_schema)
        prompt == IF revalidated.kind = "raise" THEN revalidated
                  ELSE format_prompt(template, processed_input)
    IN  IF prompt.kind = "raise"
        THEN Task("done", args, template, processed_input, PyNone,
                  Failed(<<"get", "input_validate", "input_process", "format_prompt">>),
                  prompt)
        ELSE Task("awaiting", args, template, processed_input, prompt.val,
                  Ran(<<"get", "input_validate", "input_process", "format_prompt",
                        "complete">>),
                  Pending)

\* IntentionClient.process from its start to the await of provider.complete
\* (lines 89-102), for a client whose processors have error_handling = mode.
process_start(templates, mode, template_name, data) ==
    LET args == [mode |-> mode, template_name |-> template_name, data |-> data]
        got == get(templates, template_name)
    IN  IF got.kind = "raise"
        THEN Task("done", args, PyNone, PyNone, PyNone, Failed(<<"get">>), got)
        ELSE
    LET template == got.val
        validated == input_validate(mode, data, template.cls.input_schema)
    IN  IF validated.kind = "raise"
        THEN Task("done", args, template, PyNone, PyNone,
                  Failed(<<"get", "input_validate">>), validated)
        ELSE
    LET processed_input == input_process(data).out.val
        prompt == format_prompt(template, processed_input)
    IN  IF prompt.kind = "raise"
        THEN Task("done", args, template, processed_input, PyNone,
                  Failed(<<"get", "input_validate", "input_process", "format_prompt">>),
                  prompt)
        ELSE Task("awaiting", args, template, processed_input, prompt.val,
                  Ran(<<"get", "input_validate", "input_process", "format_prompt",
                        "complete">>),
                  Pending)

\* The context process hands to enrich_output.
Context(task) ==
    PyDict(("template" :> PyStr(<<task.template_name>>))
           @@ ("provider" :> PyStr(<<"OpenAIProvider">>))
           @@ ("input" :> task.processed_input))

Finish(task, trace, out) == [task EXCEPT !.pc = "done", !.trace = trace, !.out = out]

\* IntentionClient.process after provider.complete has returned a response
\* (lines 105-118).
process_response(awaiting, response, now) ==
    LET task == [awaiting EXCEPT !.response = response]
        raw == response.raw_response
        validated == validate(task.mode, raw, task.template.cls.output_schema).out
    IN  IF validated.kind = "raise"
        THEN Finish(task, task.trace \o Failed(<<"output_validate">>), validated)
        ELSE
    LET formatted_output == format_output(task.template, raw)
    IN  IF formatted_output.kind = "raise"
        THEN Finish(task, task.trace \o Ran(<<"output_validate">>)
                              \o Failed(<<"format_output">>), formatted_output)
        ELSE
    LET enriched_output == enrich_output(formatted_output.val, Context(task), now).out
    IN  Finish(task, task.trace \o Ran(<<"output_validate", "format_output",
                                         "enrich_output">>), enriched_output)

\* Mutant of process_resume: an error of the provider is caught and raised
\* again as a plain ProviderError.
process_resume_wraps_error(task, response, now) ==
    IF response.kind = "raise"
    THEN Finish(task, Failed(<<"get", "input_validate", "input_process",
                               "format_prompt", "complete">>),
                Raise("ProviderError", response.exc.msg))
    ELSE process_response(task, response.val, now)

\* IntentionClient.process from the outcome of provider.complete to its end
\* (lines 102-118): an exception of the awaited call leaves process at line
\* 102.
process_resume(task, response, now) ==
    IF response.kind = "raise"
    THEN Finish(task, Failed(<<"get", "input_validate", "input_process",
                               "format_prompt", "complete">>), response)
    ELSE process_response(task, response.val, now)

(***************************************************************************)
(* The specification of the client: process calls in flight, registrations *)
(* between their steps, and the provider's answers.                        *)
(***************************************************************************)
\* The process calls that may be in flight together.
Calls == {"c1", "c2"}

\* {"a": "123"} and, against a str field, {"a": 5}
ClientData == {PyDict("a" :> PyStr(<<"1", "2", "3">>)), PyDict("a" :> PyInt(5))}

\* The templates registered while the client runs, all under the name t1.
ClientTemplates == {Instance(cls, "t1") : cls \in {ClassA, ClassB, ClassBase}}

\* Raw responses: {"a": 1}, {"a": "42"}, [1, 2] and a text cut short.
RawTexts ==
    {dumps(PyDict("a" :> PyInt(1))), dumps(NamedNumericString), dumps(NamedArray),
     TextOf(NamedNumericString, "no last token")}

ProviderErrors ==
    {"AuthenticationError", "RateLimitError", "ResponseFormatError", "ProviderError"}

\* What awaiting provider.complete may give.
Responses ==
    {Return([raw_response |-> text]) : text \in RawTexts}
    \cup {Raise(type, "provider") : type \in ProviderErrors}

Init ==
    /\ call = [op |-> "none"]
    /\ ret = Pending
    /\ calls = <<>>
    /\ registry = <<>>
    /\ tasks = [c \in Calls |-> Idle]

\* A caller starts client.process(template_name, data); the call runs up to
\* its await.
ProcessStart(c, mode, template_name, data) ==
    /\ tasks[c].pc = "idle"
    /\ tasks' = [tasks EXCEPT ![c] = process_start(registry, mode, template_name, data)]
    /\ UNCHANGED <<call, ret, calls, registry>>

\* provider.complete answers and the call runs to its end.
ProcessResume(c, response, now) ==
    /\ tasks[c].pc = "awaiting"
    /\ tasks' = [tasks EXCEPT ![c] = process_resume(tasks[c], response, now)]
    /\ UNCHANGED <<call, ret, calls, registry>>

\* Mutant of RegisterDuring: a call in flight holds the name of its template
\* and not the template, so a registration under that name reaches it.
RegisterDuring_rebinds(template) ==
    /\ Len(calls) < MaxRegisters
    /\ call' = [op |-> "register", template |-> template]
    /\ ret' = Return(PyNone)
    /\ registry' = register(registry, template)
    /\ calls' = Append(calls, template)
    /\ tasks' = [c \in Calls |->
                    IF tasks[c].pc = "awaiting"
                       /\ tasks[c].template_name = template.metadata.name
                    THEN [tasks[c] EXCEPT !.template = template]
                    ELSE tasks[c]]

\* A template is registered while calls are in flight.
RegisterDuring(template) ==
    /\ Len(calls) < MaxRegisters
    /\ call' = [op |-> "register", template |-> template]
    /\ ret' = Return(PyNone)
    /\ registry' = register(registry, template)
    /\ calls' = Append(calls, template)
    /\ UNCHANGED tasks

Next ==
    \/ \E c \in Calls, mode \in ProcessingModes, name \in Names, data \in ClientData :
           ProcessStart(c, mode, name, data)
    \/ \E c \in Calls, response \in Responses, now \in Clock :
           ProcessResume(c, response, now)
    \/ \E template \in ClientTemplates : RegisterDuring(template)

Spec == Init /\ [][Next]_vars

(***************************************************************************)
(* Properties of the client, checked under Spec.                           *)
(***************************************************************************)
\* The steps of process in the order of the code, and in the order C20
\* gives them.
StepOrder ==
    <<"get", "input_validate", "input_process", "format_prompt", "complete",
      "output_validate", "format_output", "enrich_output">>
ClaimedOrder ==
    <<"get", "input_validate", "input_process", "format_prompt", "complete",
      "output_validate", "enrich_output">>

StepsOf(trace) == [i \in DOMAIN trace |-> trace[i].step]
IsPrefix(s, t) == Len(s) <= Len(t) /\ SubSeq(t, 1, Len(s)) = s
IsClaimed(step) == step # "format_output"
Rank(pc) == CASE pc = "idle" -> 0 [] pc = "awaiting" -> 1 [] pc = "done" -> 2

\* The steps a call has started are in order, each at most once, and none
\* was started after one that raised.
InOrder(task) ==
    LET steps == StepsOf(task.trace)
    IN  /\ IsPrefix(steps, StepOrder)
        /\ IsPrefix(SelectSeq(steps, IsClaimed), ClaimedOrder)
        /\ \A i \in DOMAIN task.trace : task.trace[i].raised => i = Len(task.trace)
        /\ Cardinality({i \in DOMAIN steps : steps[i] = "complete"}) <= 1
        /\ task.pc = "idle" => steps = <<>>
        /\ task.pc = "awaiting" =>
               steps = SubSeq(StepOrder, 1, 5) /\ ~task.trace[5].raised
        /\ task.pc = "done" =>
               /\ steps # <<>>
               /\ task.out.kind = "raise" <=> task.trace[Len(task.trace)].raised
               /\ task.out.kind = "return" <=>
                      (steps = StepOrder /\ ~task.trace[Len(task.trace)].raised)

\* C20: within one process call the steps run strictly in the order resolve
\* template, input validate, input process, format_prompt, provider complete,
\* output validate, enrich_output, return; each step runs at most once, a
\* step starts only after every earlier step has completed without raising,
\* there is no backward edge, and provider.complete is invoked at most once.
C20_StepsInOrder ==
    /\ [](\A c \in Calls : InOrder(tasks[c]))
    /\ [][\A c \in Calls :
             /\ IsPrefix(StepsOf(tasks[c].trace), StepsOf(tasks'[c].trace))
             /\ Rank(tasks[c].pc) <= Rank(tasks'[c].pc)]_vars

\* A call ran every step and returned.
C20_Witness ==
    \E c \in Calls :
        /\ tasks[c].pc = "done"
        /\ tasks[c].out.kind = "return"
        /\ StepsOf(tasks[c].trace) = StepOrder
        /\ \A i \in DOMAIN tasks[c].trace : ~tasks[c].trace[i].raised

(***************************************************************************)
(* Failures of a process call, checked under Spec.                         *)
(***************************************************************************)
\* The input of the call does not satisfy the input schema of its template.
InputFailed(task) ==
    /\ task.template # PyNone
    /\ validate_schema(task.data, task.template.cls.input_schema) # Return(TRUE)

\* The provider's response does not satisfy the output schema of the
\* template.
OutputFailed(task) ==
    /\ task.response # PyNone
    /\ ~OutputMatches(task.response.raw_response, task.template.cls.output_schema)

\* A step of the call failed: the template is unknown, the input or the
\* response failed validation, or a step raised (format_prompt, the provider,
\* format_output).
StepFailed(task) ==
    \/ task.template = PyNone
    \/ InputFailed(task)
    \/ OutputFailed(task)
    \/ \E i \in DOMAIN task.trace : task.trace[i].raised

\* C21: in process, for every error_handling mode, a failure at any step
\* (unknown template, input that fails the input schema, prompt formatting,
\* provider call, a response that fails output validation, output formatting)
\* aborts the call with a raised error: a call with a failed step returns no
\* result, so no enriched result is returned for input or output that failed
\* validation.
C21_FailureAborts ==
    \A c \in Calls :
        (tasks[c].pc = "done" /\ StepFailed(tasks[c])) => tasks[c].out.kind = "raise"

\* C22: when provider.complete raises a provider-layer error
\* (authentication, rate limit, response format, generic provider or network
\* error), process raises that same error to its caller unchanged: it does
\* not call complete again, runs no output validation, no format_output and
\* no enrich_output, and returns no value.
C22_ProviderErrorPropagates ==
    [][\A c \in Calls, response \in Responses, now \in Clock :
          (response.kind = "raise" /\ ProcessResume(c, response, now)) =>
              /\ tasks'[c].pc = "done"
              /\ tasks'[c].out = response
              /\ StepsOf(tasks'[c].trace) = SubSeq(StepOrder, 1, 5)
              /\ tasks'[c].trace[5] = Step("complete", TRUE)
              /\ tasks'[c].response = PyNone
              /\ \A d \in Calls \ {c} : tasks'[d] = tasks[d]]_vars

\* The provider raised a RateLimitError and the call ended with it, complete
\* being its last step.
C22_Witness ==
    \E c \in Calls :
        /\ tasks[c].pc = "done"
        /\ tasks[c].out = Raise("RateLimitError", "provider")
        /\ tasks[c].trace[Len(tasks[c].trace)] = Step("complete", TRUE)

(***************************************************************************)
(* error_handling = ignore against lenient, checked under SpecProcessors.  *)
(***************************************************************************)
\* What the validate call of the state gives under error_handling = mode.
ValidateUnder(mode) ==
    IF call.op = "input_validate"
    THEN input_validate(mode, call.data, call.schema)
    ELSE validate(mode, call.text, call.schema).out

Contains(cs, sub) ==
    \E i \in 1..(Len(cs) - Len(sub) + 1) : SubSeq(cs, i, i + Len(sub) - 1) = sub

\* cs holds none of the characters and none of the substrings sanitize is to
\* remove.
Clean(cs) ==
    /\ \A i \in DOMAIN cs : cs[i] \notin {"'", "\"", ";"}
    /\ ~Contains(cs, ScriptTag)
    /\ ~Contains(cs, ScriptEndTag)

\* a is b with some characters taken out.
RECURSIVE Stripped(_, _)
Stripped(a, b) ==
    IF a = <<>> THEN TRUE
    ELSE IF b = <<>> THEN FALSE
    ELSE IF Head(a) = Head(b) THEN Stripped(Tail(a), Tail(b))
    ELSE Stripped(a, Tail(b))

\* What sanitize owes for one value and for a mapping.
SanitizedValue(in, out) ==
    IF ~isinstance(in, "str") THEN out = in
    ELSE /\ out.t = "str"
         /\ Stripped(out.s, in.s)
         /\ Clean(in.s) => out.s = in.s
         /\ Clean(out.s)
SanitizeRule(in, out) ==
    /\ out.t = "dict"
    /\ DOMAIN out.d = DOMAIN in.d
    /\ \A k \in DOMAIN in.d : SanitizedValue(in.d[k], out.d[k])

\* C24: InputProcessor.sanitize leaves its input mapping unchanged and
\* returns a copy in which non-string values are unchanged and every
\* top-level string value has had the characters ', " and ; and the
\* substrings <script> and </script> stripped, so that no string value of the
\* result contains any of them, also where a removal joins fragments, as in
\* "<scr<script>ipt>".
C24_SanitizeRule ==
    [][SanitizeCall =>
          /\ call'.data = call.data
          /\ ret'.kind = "return"
          /\ SanitizeRule(call.data, ret'.val)]_vars

(***************************************************************************)
(* Concurrent calls and registrations, checked under Spec.                 *)
(***************************************************************************)
\* What TemplateRegistry.get gives the call that starts now under a name.
Resolved(name) ==
    IF get(registry, name).kind = "return" THEN get(registry, name).val ELSE PyNone

\* The call has its template and holds the one it was given at its start.
HoldsTemplate(task) == task.pc # "idle" /\ task.template # PyNone

\* C25: concurrent process calls are independent and each uses one template
\* throughout: the template is read from the registry once, at the start of
\* the call, so a register under the same name during the call's suspension
\* changes neither the output schema the call validates against nor the
\* format_output it applies; the calls share no state but the registry.
C25_OneTemplatePerCall ==
    /\ [](\A c \in Calls :
             HoldsTemplate(tasks[c]) =>
                 /\ tasks[c].template.metadata.name = tasks[c].template_name
                 /\ \E i \in DOMAIN calls : calls[i] = tasks[c].template
                 /\ (tasks[c].out.kind = "return" /\ tasks[c].mode = STRICT) =>
                        OutputMatches(tasks[c].response.raw_response,
                                      tasks[c].template.cls.output_schema)
                 /\ tasks[c].out.kind = "return" =>
                        format_output(tasks[c].template,
                                      tasks[c].response.raw_response).kind = "return")
    /\ [][\A c \in Calls :
             /\ (tasks[c].pc = "idle" /\ tasks'[c].pc # "idle") =>
                    tasks'[c].template = Resolved(tasks'[c].template_name)
             /\ tasks[c].pc # "idle" =>
                    /\ tasks'[c].template = tasks[c].template
                    /\ tasks'[c].processed_input = tasks[c].processed_input
                    /\ tasks'[c].prompt = tasks[c].prompt
             /\ tasks'[c] # tasks[c] =>
                    /\ registry' = registry
                    /\ \A d \in Calls \ {c} : tasks'[d] = tasks[d]
             /\ registry' # registry => tasks' = tasks]_vars

\* A call started under t1 with template A was suspended, B was registered
\* under t1, and the call accepted {"a": 1} against the output schema of A;
\* the schema of B rejects it.
C25_Witness ==
    \E c \in Calls :
        /\ tasks[c].pc = "done"
        /\ tasks[c].mode = STRICT
        /\ tasks[c].template = Instance(ClassA, "t1")
        /\ registry = <<Instance(ClassB, "t1")>>
        /\ calls = <<Instance(ClassA, "t1"), Instance(ClassB, "t1")>>
        /\ tasks[c].out.kind = "return"
        /\ tasks[c].response.raw_response = dumps(PyDict("a" :> PyInt(1)))
        /\ ~OutputMatches(tasks[c].response.raw_response, ClassB.output_schema)

\* The call passed input validation, normalised its input and formatted its
\* prompt.
Prompted(task) == task.pc \in {"awaiting", "done"} /\ task.prompt # PyNone

\* C26: process checks the input schema against the raw input only; the
\* normalised input of InputProcessor.process goes to format_prompt and into
\* the result's _context.input without a second validation, so a str field
\* holding a numeric-looking string such as "123" passes validation and
\* reaches format_prompt as a number that no longer satisfies the input
\* schema.
C26_NormalisedInputNotRevalidated ==
    /\ [][\A c \in Calls, mode \in ProcessingModes :
             (/\ ProcessStart(c, mode, "t1", PyDict("a" :> PyStr(<<"1", "2", "3">>)))
              /\ Resolved("t1") \in {Instance(ClassA, "t1"), Instance(ClassB, "t1")}) =>
                 /\ tasks'[c].pc = "awaiting"
                 /\ tasks'[c].prompt.data = PyDict("a" :> PyInt(123))]_vars
    /\ [] \A c \in Calls :
        Prompted(tasks[c]) =>
            LET task == tasks[c]
                schema == task.template.cls.input_schema
            IN  /\ task.mode = STRICT => validate_schema(task.data, schema) = Return(TRUE)
                /\ task.processed_input = input_process(task.data).out.val
                /\ task.prompt = format_prompt(task.template, task.processed_input).val
                /\ task.prompt.data = task.processed_input
                /\ task.out.kind = "return" =>
                       task.out.val.d["_context"].d["input"] = task.processed_input
                /\ (task.data = PyDict("a" :> PyStr(<<"1", "2", "3">>))
                    /\ schema = StrField) =>
                       /\ validate_schema(task.data, schema) = Return(TRUE)
                       /\ task.prompt.data = PyDict("a" :> PyInt(123))
                       /\ validate_schema(task.prompt.data, schema) = Return(FALSE)

\* Under strict, {"a": "123"} passed the schema {a: str}, reached format_prompt
\* as {"a": 123} and came back in _context.input of the result.
C26_Witness ==
    \E c \in Calls :
        /\ tasks[c].pc = "done"
        /\ tasks[c].mode = STRICT
        /\ tasks[c].out.kind = "return"
        /\ tasks[c].data = PyDict("a" :> PyStr(<<"1", "2", "3">>))
        /\ tasks[c].template.cls.input_schema = StrField
        /\ tasks[c].prompt.data = PyDict("a" :> PyInt(123))
        /\ tasks[c].out.val.d["_context"].d["input"] = PyDict("a" :> PyInt(123))
        /\ validate_schema(tasks[c].prompt.data, StrField) = Return(FALSE)

====
